---- MODULE Spec2Model ----
(***************************************************************************)
(* Model of the front end of the source-control client (class Main of      *)
(* ui/main.js): the event listeners and click handlers registered by       *)
(* Main.run, the activity counter behind the busy spinner, the change-list *)
(* view, and the branch / tag tree view with its expansion state.          *)
(*                                                                         *)
(* Text is modelled as a sequence of tokens.  A file path is a sequence    *)
(* of one-character strings.  An element id or a branch segment is a       *)
(* sequence of dash-free words separated by the token "-", so two ids are  *)
(* equal as token sequences exactly when the strings they stand for are    *)
(* equal.                                                                  *)
(***************************************************************************)
EXTENDS Integers, Sequences, FiniteSets, TLC

VARIABLES
    processCount,     \* Main.processCount
    spinnerVisible,   \* whether #mainSpinner is displayed
    roots,            \* the three static top-level lists and their headers
    tree,             \* the rendered branch / tag rows under each root
    unstagedRows,     \* rows of #unstagedChanges
    stagedRows,       \* rows of #stagedChanges
    changesTab,       \* the number shown on #changes-tab (0: no number)
    fileDiffTable,    \* rows of #fileDiffTable
    commitFileDiffTable, \* rows of #commitFileDiffTable
    commitRows,       \* rows of #commitChanges
    containerWidth,   \* clientWidth of the containers of the file labels
    contextMenu,      \* "hidden", or the branch type its Delete button is bound to
    generalInfo,      \* Main.generalInfo
    remoteSelect,     \* the options of #remoteSelect
    last,             \* what the most recent handler run did (history)
    script,           \* calls still to be made by the call-sequence driver
    calls,            \* calls made so far by the call-sequence driver
    unanswered,       \* a counted command was emitted whose completion event
                      \* the backend never sends
    entries,          \* the flat list of names the backend builds its tree from
    requests          \* the file-diff commands emitted and not yet answered

vars == <<processCount, spinnerVisible, roots, tree, unstagedRows, stagedRows,
          changesTab, fileDiffTable, commitFileDiffTable, containerWidth,
          contextMenu, generalInfo, remoteSelect, last, script, calls,
          unanswered, entries, requests, commitRows>>

uiVars == <<roots, tree, unstagedRows, stagedRows, changesTab, fileDiffTable,
            commitFileDiffTable, commitRows, containerWidth, contextMenu, generalInfo,
            remoteSelect>>

(***************************************************************************)
(* Bounds of the model.                                                    *)
(***************************************************************************)
\* addProcessCount is not taken above this count
MaxCount == 2
\* longest call sequence run by the call-sequence driver
MaxCalls == 6

\* file-diff commands are not emitted while this many are unanswered
MaxRequests == 2

(***************************************************************************)
(* The activity counter.                                                   *)
(***************************************************************************)
\* the counter and the spinner, as one value
Counter(c, v) == [count |-> c, visible |-> v, hides |-> 0]

\* addProcessCount: increment, then show the spinner
AddProcessCount(st) ==
    [st EXCEPT !.count = st.count + 1, !.visible = TRUE]

\* removeProcessCount without the reset of a negative count
RemoveProcessCountUnclamped(st) ==
    LET dec == st.count - 1 IN
    IF dec <= 0
    THEN [count |-> dec, visible |-> FALSE, hides |-> st.hides + 1]
    ELSE [st EXCEPT !.count = dec]

\* removeProcessCount hiding the spinner only when the count reaches 0
RemoveProcessCountHideAtZeroOnly(st) ==
    LET dec == st.count - 1 IN
    IF dec = 0
    THEN [count |-> 0, visible |-> FALSE, hides |-> st.hides + 1]
    ELSE [st EXCEPT !.count = IF dec < 0 THEN 0 ELSE dec]

\* removeProcessCount hiding the spinner on every call
RemoveProcessCountHideAlways(st) ==
    LET dec == st.count - 1 IN
    [count |-> IF dec < 0 THEN 0 ELSE dec,
     visible |-> FALSE,
     hides |-> st.hides + 1]

\* removeProcessCount: decrement; at or below 0 hide the spinner, and
\* below 0 put the count back to 0.  hides counts the calls of hide().
RemoveProcessCount(st) ==
    LET dec == st.count - 1 IN
    IF dec <= 0
    THEN [count |-> IF dec < 0 THEN 0 ELSE dec,
          visible |-> FALSE,
          hides |-> st.hides + 1]
    ELSE [st EXCEPT !.count = dec]

(***************************************************************************)
(* Fitting a file label into its container (truncateFilePathText).         *)
(***************************************************************************)
Ellipsis == <<".", ".", ".">>

\* the characters rendered two units wide; every other one is one unit wide
WideChars == {"m", "w"}

RECURSIVE ClientWidth(_)
\* clientWidth of a label showing text t: the widths of its characters
ClientWidth(t) ==
    IF t = <<>> THEN 0
    ELSE (IF Head(t) \in WideChars THEN 2 ELSE 1) + ClientWidth(Tail(t))

\* String.prototype.substring(n): the text from index n (0-based) on
Substring(t, n) == IF n >= Len(t) THEN <<>> ELSE SubSeq(t, n + 1, Len(t))

RECURSIVE TruncateTraceDropFour(_, _)
\* the while loop cutting four characters of the text behind the ellipsis
TruncateTraceDropFour(t, w) ==
    IF ClientWidth(t) >= w
    THEN LET t2 == Ellipsis \o Substring(t, 7) IN
         <<t>> \o (IF t2 = Ellipsis THEN <<t2>> ELSE TruncateTraceDropFour(t2, w))
    ELSE <<t>>

RECURSIVE TruncateTraceOvershoot(_, _)
\* the while loop running its body once more after the text fits
TruncateTraceOvershoot(t, w) ==
    LET t2 == Ellipsis \o Substring(t, 4) IN
    IF ClientWidth(t) >= w
    THEN <<t>> \o (IF t2 = Ellipsis THEN <<t2>> ELSE TruncateTraceOvershoot(t2, w))
    ELSE <<t, t2>>

RECURSIVE TruncateTrace(_, _)
\* the while loop of truncateFilePathText on the label text t: the values
\* textContent takes, the first one that of the loop's entry
TruncateTrace(t, w) ==
    IF ClientWidth(t) >= w
    THEN LET t2 == Ellipsis \o Substring(t, 4) IN
         <<t>> \o (IF t2 = Ellipsis THEN <<t2>> ELSE TruncateTrace(t2, w))
    ELSE <<t>>

\* textContent when the while loop is left
TruncateLoop(t, w) ==
    LET trace == TruncateTrace(t, w) IN trace[Len(trace)]

\* textContent at the entry of the while loop: the original text, with the
\* ellipsis in front when it does not fit
LoopEntry(orig, w) == IF ClientWidth(orig) >= w THEN Ellipsis \o orig ELSE orig

\* the fitting run without the test of the two widths against 0
TruncateFilePathTextNoGuard(orig, w) == TruncateLoop(LoopEntry(orig, w), w)

\* the fitting that puts the ellipsis in front whether the text fits or not
TruncateFilePathTextAlwaysEllipsis(orig, w) ==
    IF ClientWidth(orig) > 0 /\ w > 0
    THEN TruncateLoop(Ellipsis \o orig, w)
    ELSE orig

\* the body of the for loop of truncateFilePathText for one label whose
\* data-original-txt is orig, in a container of clientWidth w
TruncateFilePathText(orig, w) ==
    IF ClientWidth(orig) > 0 /\ w > 0
    THEN TruncateLoop(LoopEntry(orig, w), w)
    ELSE orig

\* truncateFilePathText fitting the text each label shows, without setting
\* it back to data-original-txt first
TruncateRowsFromShown(rows, w) ==
    [i \in 1..Len(rows) |->
        [rows[i] EXCEPT !.text = TruncateFilePathText(rows[i].text, w)]]

\* truncateFilePathText over the labels of one list of rows
TruncateRows(rows, w) ==
    [i \in 1..Len(rows) |->
        [rows[i] EXCEPT !.text = TruncateFilePathText(rows[i].path, w)]]

(***************************************************************************)
(* The branch / tag tree view.                                             *)
(***************************************************************************)
\* the static lists, in document order
RootIds == <<"localBranches", "remoteBranches", "tags">>

Range(s) == {s[i] : i \in 1..Len(s)}

\* addEventListener registering the listener once more on every call
AddEventListenerAgain(listeners, f) == Append(listeners, f)

\* EventTarget.addEventListener: a listener already registered for the
\* event is not registered again
AddEventListener(listeners, f) ==
    IF f \in Range(listeners) THEN listeners ELSE Append(listeners, f)

RECURSIVE BuildBranchResultHTMLLastFirst(_, _, _)
\* buildBranchResultHTML visiting the children from the last to the first
BuildBranchResultHTMLLastFirst(currentChildren, parentTxt, parentPath) ==
    IF currentChildren = <<>> THEN <<>>
    ELSE LET child == currentChildren[Len(currentChildren)]
             path == Append(parentPath, child.text)
             rendered ==
                IF Len(child.children) > 0
                THEN LET newParentTxt == parentTxt \o <<"-">> \o child.text IN
                     <<[kind |-> "parent",
                        id |-> newParentTxt,
                        path |-> path,
                        text |-> child.text,
                        active |-> FALSE,
                        rotated |-> FALSE,
                        listeners |-> <<>>]>>
                     \o BuildBranchResultHTMLLastFirst(child.children, newParentTxt, path)
                ELSE <<[kind |-> "leaf",
                        path |-> path,
                        text |-> (IF child.branch_info.is_head = TRUE
                                  THEN <<"*", " ">> ELSE <<>>) \o child.text,
                        behind |-> child.branch_info.behind,
                        ahead |-> child.branch_info.ahead,
                        dblclick |-> IF child.branch_info.branch_type = "remote"
                                     THEN "checkout-remote"
                                     ELSE IF child.branch_info.branch_type = "local"
                                          THEN "checkout" ELSE "none",
                        branch_type |-> child.branch_info.branch_type]>>
         IN rendered
            \o BuildBranchResultHTMLLastFirst(
                    SubSeq(currentChildren, 1, Len(currentChildren) - 1),
                    parentTxt, parentPath)

RECURSIVE BuildBranchResultHTML(_, _, _)
\* buildBranchResultHTML: the elements appended under $ul, in document
\* order; path records under which rendered parents an element sits
BuildBranchResultHTML(currentChildren, parentTxt, parentPath) ==
    IF currentChildren = <<>> THEN <<>>
    ELSE LET child == Head(currentChildren)
             path == Append(parentPath, child.text)
             rendered ==
                IF Len(child.children) > 0
                THEN LET newParentTxt == parentTxt \o <<"-">> \o child.text IN
                     <<[kind |-> "parent",
                        id |-> newParentTxt,
                        path |-> path,
                        text |-> child.text,
                        active |-> FALSE,
                        rotated |-> FALSE,
                        listeners |-> <<>>]>>
                     \o BuildBranchResultHTML(child.children, newParentTxt, path)
                ELSE <<[kind |-> "leaf",
                        path |-> path,
                        text |-> (IF child.branch_info.is_head = TRUE
                                  THEN <<"*", " ">> ELSE <<>>) \o child.text,
                        behind |-> child.branch_info.behind,
                        ahead |-> child.branch_info.ahead,
                        dblclick |-> IF child.branch_info.branch_type = "remote"
                                     THEN "checkout-remote"
                                     ELSE IF child.branch_info.branch_type = "local"
                                          THEN "checkout" ELSE "none",
                        branch_type |-> child.branch_info.branch_type]>>
         IN rendered \o BuildBranchResultHTML(Tail(currentChildren), parentTxt, parentPath)

\* setupTreeViews on one list of rendered rows
SetupRows(rows) ==
    [i \in 1..Len(rows) |->
        IF rows[i].kind = "parent"
        THEN [rows[i] EXCEPT !.listeners = AddEventListener(@, "togglerClick")]
        ELSE rows[i]]

\* setupTreeViews: togglerClick is registered on every .parent-tree header
SetupTreeViews(dom) ==
    [roots |-> [r \in DOMAIN dom.roots |->
                    [dom.roots[r] EXCEPT
                        !.listeners = AddEventListener(@, "togglerClick")]],
     tree |-> [r \in DOMAIN dom.tree |-> SetupRows(dom.tree[r])]]

RECURSIVE NestedRows(_, _, _)
\* the nested lists among rows i.. of the list rendered under root r
NestedRows(rows, r, i) ==
    IF i > Len(rows) THEN <<>>
    ELSE IF rows[i].kind = "parent"
         THEN <<[root |-> r, idx |-> i, id |-> rows[i].id,
                 active |-> rows[i].active]>> \o NestedRows(rows, r, i + 1)
         ELSE NestedRows(rows, r, i + 1)

\* the .nested lists of the document, in document order: each static list
\* (idx 0) followed by the nested lists rendered under it
NestedOf(dom, r) ==
    <<[root |-> r, idx |-> 0, id |-> <<r>>, active |-> dom.roots[r].active]>>
    \o NestedRows(dom.tree[r], r, 1)

Nested(dom) ==
    NestedOf(dom, RootIds[1]) \o NestedOf(dom, RootIds[2]) \o NestedOf(dom, RootIds[3])

\* the ids collected without the first expanded list
ActiveTreeIdsSkipFirst(dom) ==
    LET act == SelectSeq(Nested(dom), LAMBDA e : e.active) IN
    IF act = <<>> THEN <<>> ELSE [i \in 1..(Len(act) - 1) |-> act[i + 1].id]

\* the ids pushed by $('.active-tree').each(...)
ActiveTreeIds(dom) ==
    LET act == SelectSeq(Nested(dom), LAMBDA e : e.active) IN
    [i \in 1..Len(act) |-> act[i].id]

\* document.getElementById on the lists doc: the first one carrying id
GetElementById(doc, id) ==
    LET at == {i \in 1..Len(doc) : doc[i].id = id} IN
    IF at = {} THEN {}
    ELSE {doc[CHOOSE i \in at : \A j \in at : i <= j]}

\* querySelectorAll("#a,#b,...") on the lists doc: every one carrying one
\* of the ids
QuerySelectorAll(doc, ids) ==
    {doc[i] : i \in {j \in 1..Len(doc) : doc[j].id \in Range(ids)}}

\* a selection that fails when one of the ids is carried by no element
JQuerySelectStrict(ids, doc) ==
    IF ids = <<>> \/ \E k \in 1..Len(ids) : GetElementById(doc, ids[k]) = {}
    THEN [error |-> TRUE, found |-> {}]
    ELSE [error |-> FALSE,
          found |-> {[root |-> e.root, idx |-> e.idx] :
                        e \in IF Len(ids) = 1 THEN GetElementById(doc, ids[1])
                              ELSE QuerySelectorAll(doc, ids)}]

\* $("#" + ids.join(",#")): the positions selected in the document.  With
\* no id the selector is "#", which jQuery rejects with a syntax error; a
\* single "#id" is looked up with getElementById; a selector list is
\* matched with querySelectorAll.
JQuerySelect(ids, doc) ==
    IF ids = <<>> THEN [error |-> TRUE, found |-> {}]
    ELSE [error |-> FALSE,
          found |-> {[root |-> e.root, idx |-> e.idx] :
                        e \in IF Len(ids) = 1 THEN GetElementById(doc, ids[1])
                              ELSE QuerySelectorAll(doc, ids)}]

\* addClass("active-tree") on the selected lists and addClass("rotated-caret")
\* on the carets of their headers
MarkExpanded(dom, found) ==
    [roots |-> [r \in DOMAIN dom.roots |->
                    IF [root |-> r, idx |-> 0] \in found
                    THEN [dom.roots[r] EXCEPT !.active = TRUE, !.rotated = TRUE]
                    ELSE dom.roots[r]],
     tree |-> [r \in DOMAIN dom.tree |->
                    [i \in 1..Len(dom.tree[r]) |->
                        IF [root |-> r, idx |-> i] \in found
                        THEN [dom.tree[r][i] EXCEPT !.active = TRUE, !.rotated = TRUE]
                        ELSE dom.tree[r][i]]]]

\* the three lists emptied and rebuilt from the snapshot's trees
Rebuild(dom, branch_info_list) ==
    [roots |-> dom.roots,
     tree |-> [r \in DOMAIN dom.tree |->
                 BuildBranchResultHTML(
                    IF r = "localBranches"
                    THEN branch_info_list.local_branch_info_tree.children
                    ELSE IF r = "remoteBranches"
                         THEN branch_info_list.remote_branch_info_tree.children
                         ELSE branch_info_list.tag_branch_info_tree.children,
                    <<r>>, <<>>)]]

\* updateBranchInfo: the view after the call, and whether the call threw
\* (the statements after the throwing one are not executed)
UpdateBranchInfo(dom, branch_info_list) ==
    LET activeTreeIds == ActiveTreeIds(dom)
        built == SetupTreeViews(Rebuild(dom, branch_info_list))
        sel == JQuerySelect(activeTreeIds, Nested(built))
    IN IF sel.error
       THEN [dom |-> built, threw |-> TRUE]
       ELSE [dom |-> MarkExpanded(built, sel.found), threw |-> FALSE]

\* togglerClick toggling active-tree and leaving the caret as it is
ToggleListOnly(el) == [el EXCEPT !.active = ~@]

\* one run of togglerClick on a header: both classes are toggled
Toggle(el) == [el EXCEPT !.active = ~@, !.rotated = ~@]

RECURSIVE Dispatch(_, _)
\* a click on a header runs every listener registered on it
Dispatch(listeners, el) ==
    IF listeners = <<>> THEN el
    ELSE Dispatch(Tail(listeners),
                  IF Head(listeners) = "togglerClick" THEN Toggle(el) ELSE el)

(***************************************************************************)
(* The change-list view.                                                   *)
(***************************************************************************)
\* addFileChangeRow: the row appended for one file of a change list
AddFileChangeRow(file, changeType) ==
    [path |-> file.path, text |-> file.path, change_type |-> changeType,
     selected |-> FALSE]

\* unselectAllRows leaving the rows of the list as they are
UnselectAllRowsNone(rows) == rows

\* unselectAllRows on one list of rows
UnselectAllRows(rows) ==
    [i \in 1..Len(rows) |-> [rows[i] EXCEPT !.selected = FALSE]]

\* selectRow on row i of a list of rows
SelectRow(rows, i) == [rows EXCEPT ![i].selected = TRUE]

\* updateFilesChangedInfo: the change-list view rebuilt from the payload;
\* unselectAllRows empties #fileDiffTable, and the labels are fitted last
UpdateFilesChangedInfo(files_changed_info_list, w) ==
    [changesTab |-> IF files_changed_info_list.files_changed > 0
                    THEN files_changed_info_list.files_changed ELSE 0,
     unstagedRows |->
        TruncateRows([i \in 1..Len(files_changed_info_list.unstaged_files) |->
                        AddFileChangeRow(files_changed_info_list.unstaged_files[i],
                                         "unstaged")], w),
     stagedRows |->
        TruncateRows([i \in 1..Len(files_changed_info_list.staged_files) |->
                        AddFileChangeRow(files_changed_info_list.staged_files[i],
                                         "staged")], w),
     fileDiffTable |-> <<>>]

\* showFileDiff: the rows appended to the diff table for the payload's lines
FileLineRows(file_lines) ==
    [i \in 1..Len(file_lines) |->
        [class |-> IF file_lines[i].origin = "+" THEN "added-code-line"
                   ELSE IF file_lines[i].origin = "-" THEN "removed-code-line"
                        ELSE "",
         old_lineno |-> file_lines[i].old_lineno,
         new_lineno |-> file_lines[i].new_lineno,
         origin |-> file_lines[i].origin,
         content |-> file_lines[i].content]]

\* updateRemoteInfo: the options of #remoteSelect; an empty list leaves
\* the options as they are
UpdateRemoteInfo(options, remote_info_list) ==
    IF Len(remote_info_list) > 0
    THEN [i \in 1..Len(remote_info_list) |->
            [value |-> remote_info_list[i],
             selected |-> remote_info_list[i] = "origin"]]
    ELSE options

(***************************************************************************)
(* The payloads the backend sends.                                         *)
(***************************************************************************)
Leaf(text, type, isHead) ==
    [text |-> text, children |-> <<>>,
     branch_info |-> [is_head |-> isHead, behind |-> 0, ahead |-> 0,
                      branch_type |-> type]]

Dir(text, children) ==
    [text |-> text, children |-> children,
     branch_info |-> [is_head |-> FALSE, behind |-> 0, ahead |-> 0,
                      branch_type |-> ""]]

BranchInfoList(local, remote, tag) ==
    [local_branch_info_tree |-> [children |-> local],
     remote_branch_info_tree |-> [children |-> remote],
     tag_branch_info_tree |-> [children |-> tag]]

File1 == [path |-> <<"s", "r", "c", "/", "a", ".", "c">>]
File2 == [path |-> <<"b", ".", "c">>]

FilesChanged(unstaged, staged) ==
    [files_changed |-> Len(unstaged) + Len(staged),
     unstaged_files |-> unstaged, staged_files |-> staged]

\* the change lists sent with update_changes and inside update_all
ChangeLists ==
    {FilesChanged(<<>>, <<>>),
     FilesChanged(<<File1>>, <<>>),
     FilesChanged(<<File1>>, <<File2>>)}

\* main, feature/a, feature/b, release/v1/hotfix
TreeFull ==
    BranchInfoList(
        <<Leaf(<<"main">>, "local", TRUE),
          Dir(<<"feature">>, <<Leaf(<<"a">>, "local", FALSE),
                               Leaf(<<"b">>, "local", FALSE)>>),
          Dir(<<"release">>,
              <<Dir(<<"v1">>, <<Leaf(<<"hotfix">>, "local", FALSE)>>)>>)>>,
        <<>>, <<>>)

\* main, feature/a; the remote branch origin/main; the tag v1
TreeSmall ==
    BranchInfoList(
        <<Leaf(<<"main">>, "local", TRUE),
          Dir(<<"feature">>, <<Leaf(<<"a">>, "local", FALSE)>>)>>,
        <<Dir(<<"origin">>, <<Leaf(<<"main">>, "remote", FALSE)>>)>>,
        <<Leaf(<<"v1">>, "tag", FALSE)>>)

\* feature-x/a and feature/x/b
TreeDash ==
    BranchInfoList(
        <<Dir(<<"feature", "-", "x">>, <<Leaf(<<"a">>, "local", TRUE)>>),
          Dir(<<"feature">>,
              <<Dir(<<"x">>, <<Leaf(<<"b">>, "local", FALSE)>>)>>)>>,
        <<>>, <<>>)

RepoInfo(name, general, changes, branches, remotes) ==
    [name |-> name, general_info |-> general, files_changed_info_list |-> changes,
     branch_info_list |-> branches, remote_info_list |-> remotes]

\* the snapshots sent with update_all
Snapshots ==
    {RepoInfo("full", [head_has_upstream |-> "false"],
              FilesChanged(<<File1>>, <<>>), TreeFull, <<>>),
     RepoInfo("small", [head_has_upstream |-> "true"],
              FilesChanged(<<File1>>, <<File2>>), TreeSmall, <<"origin">>),
     RepoInfo("dash", [head_has_upstream |-> "false"],
              FilesChanged(<<>>, <<>>), TreeDash, <<>>)}

\* the payloads of commit-info
CommitInfos ==
    {[sha |-> "c1", changed_files |-> <<File2>>],
     [sha |-> "c2", changed_files |-> <<File1, File2>>]}

\* the payload of the show-file-lines event that answers a file-diff
\* command: one added line; what the diff of a file says stands in content
\* as the file and the list the diff was asked for
FileInfo(request) ==
    [change_type |-> request.change_type,
     file_lines |-> <<[origin |-> "+", old_lineno |-> 0, new_lineno |-> 1,
                       content |-> [file_path |-> request.file_path,
                                    change_type |-> request.change_type]]>>]

\* the clientWidths a resize gives the containers of the file labels
Widths == {0, 3, 5, 7, 12}

\* the texts of the labels that are fitted: of 0 to 7 characters, with and
\* without wide characters, the ellipsis itself among them
FitTexts ==
    {Substring(File1.path, n) : n \in 0..Len(File1.path)}
    \cup {Ellipsis, Ellipsis \o <<".">>, <<"m">>, <<"m", "w">>,
          <<"w", "/", "m", ".", "c">>}

\* the change lists that render one label each
FitLists == {FilesChanged(<<[path |-> t]>>, <<>>) : t \in FitTexts}

(***************************************************************************)
(* The tree the backend builds from a flat list of names (the builder is   *)
(* not part of ui/main.js; it is modelled from its design description).    *)
(* A full name is a sequence of tokens, the separator being one of them.   *)
(***************************************************************************)
\* the longest list of names a snapshot is built from
MaxEntries == 3

\* the path separator
Separator == "/"

\* the positions of the separator in a name
SeparatorsIn(fullName, separator) ==
    {i \in 1..Len(fullName) : fullName[i] = separator}

RECURSIVE Split(_, _)
\* fullName split by separator into segments; an empty segment is kept
Split(fullName, separator) ==
    IF SeparatorsIn(fullName, separator) = {} THEN <<fullName>>
    ELSE LET at == SeparatorsIn(fullName, separator)
             i == CHOOSE k \in at : \A j \in at : k <= j
         IN <<SubSeq(fullName, 1, i - 1)>>
            \o Split(SubSeq(fullName, i + 1, Len(fullName)), separator)

RECURSIVE Join(_, _)
\* segments joined by separator
Join(segments, separator) ==
    IF segments = <<>> THEN <<>>
    ELSE IF Len(segments) = 1 THEN segments[1]
         ELSE segments[1] \o <<separator>> \o Join(Tail(segments), separator)

\* a node without entry and without children
NewNode(segment) == [segment |-> segment, children |-> <<>>, entry |-> <<>>]

\* the entry of a name: a local branch, none of them checked out
Entry(fullName) ==
    [fullName |-> fullName, shorthand |-> fullName, kind |-> "local",
     isHead |-> FALSE, ahead |-> 0, behind |-> 0]

RECURSIVE Attach(_, _, _)
\* the walk from node along segments, creating a child for each segment not
\* yet present, and the entry attached to the node reached; an entry
\* already there is replaced
Attach(node, segments, entry) ==
    IF segments = <<>> THEN [node EXCEPT !.entry = <<entry>>]
    ELSE LET at == {i \in 1..Len(node.children) :
                        node.children[i].segment = Head(segments)}
         IN IF at = {}
            THEN [node EXCEPT !.children =
                    Append(@, Attach(NewNode(Head(segments)), Tail(segments), entry))]
            ELSE LET i == CHOOSE k \in at : TRUE IN
                 [node EXCEPT !.children[i] = Attach(@, Tail(segments), entry)]

RECURSIVE BuildFrom(_, _, _)
BuildFrom(root, names, separator) ==
    IF names = <<>> THEN root
    ELSE BuildFrom(Attach(root, Split(Head(names), separator), Entry(Head(names))),
                   Tail(names), separator)

\* build: the tree of the names, in input order, under a root with the
\* empty segment
Build(names, separator) == BuildFrom(NewNode(<<>>), names, separator)

RECURSIVE BranchInfoTree(_)
\* the nodes as update_all carries them: text, children and branch_info
BranchInfoTree(nodes) ==
    [i \in 1..Len(nodes) |->
        [text |-> nodes[i].segment,
         children |-> BranchInfoTree(nodes[i].children),
         branch_info |->
            IF nodes[i].entry = <<>>
            THEN [is_head |-> FALSE, behind |-> 0, ahead |-> 0, branch_type |-> ""]
            ELSE [is_head |-> nodes[i].entry[1].isHead,
                  behind |-> nodes[i].entry[1].behind,
                  ahead |-> nodes[i].entry[1].ahead,
                  branch_type |-> nodes[i].entry[1].kind]]]

\* the names the lists are drawn from: a, b, a/b, a/c, b/a, /a and a/
Names ==
    {<<"a">>, <<"b">>, <<"a", "/", "b">>, <<"a", "/", "c">>, <<"b", "/", "a">>,
     <<"/", "a">>, <<"a", "/">>}

\* the flat lists of at most MaxEntries names
EntryLists == UNION {[1..n -> Names] : n \in 0..MaxEntries}

\* the snapshot whose local branches are built from names
BuiltSnapshot(names) ==
    [name |-> "built", general_info |-> [head_has_upstream |-> "false"],
     files_changed_info_list |->
        [files_changed |-> 0, unstaged_files |-> <<>>, staged_files |-> <<>>],
     branch_info_list |->
        [local_branch_info_tree |->
            [children |-> BranchInfoTree(Build(names, Separator).children)],
         remote_branch_info_tree |-> [children |-> <<>>],
         tag_branch_info_tree |-> [children |-> <<>>]],
     remote_info_list |-> <<>>]

(***************************************************************************)
(* State after construction and Main.run.                                  *)
(***************************************************************************)
\* the record kept in last for a handler run: the counter when it began,
\* the command emitted and the count at the emit, the alert shown and the
\* counter at the alert, the calls of hide() and of removeProcessCount,
\* whether the handler threw, the snapshot handled, the snapshots the tree
\* showed when the handler began, whether the handler before it handled the
\* same snapshot, whether an expanded parent has no counterpart in the
\* rebuilt tree, the texts the unstaged labels showed when the handler
\* began, the header clicked, and the number of selected rows and of lines
\* in #fileDiffTable when the handler began
Did(handler, pre) ==
    [handler |-> handler, pre |-> pre, emit |-> "none", atEmit |-> 0,
     alert |-> FALSE, atAlert |-> [count |-> 0, visible |-> FALSE],
     hides |-> 0, removes |-> 0, threw |-> FALSE, payload |-> "none",
     from |-> {}, again |-> FALSE, dropped |-> FALSE, shown |-> <<>>,
     target |-> [root |-> "none", idx |-> 0],
     selected |-> Len(SelectSeq(unstagedRows \o stagedRows \o commitRows,
                                LAMBDA e : e.selected)),
     diffLines |-> Len(fileDiffTable)]

Dom == [roots |-> roots, tree |-> tree]

\* the counter and the spinner now
Now == [count |-> processCount, visible |-> spinnerVisible]

\* the counter and the views when Main.run returns
InitView ==
    /\ processCount = 0
    /\ spinnerVisible = FALSE
    /\ roots = [r \in Range(RootIds) |->
                  [active |-> FALSE, rotated |-> FALSE,
                   listeners |-> <<"togglerClick">>]]
    /\ tree = [r \in Range(RootIds) |-> <<>>]
    /\ unstagedRows = <<>>
    /\ stagedRows = <<>>
    /\ changesTab = 0
    /\ fileDiffTable = <<>>
    /\ commitFileDiffTable = <<>>
    /\ commitRows = <<>>
    /\ containerWidth = 12
    /\ contextMenu = "hidden"
    /\ generalInfo = [head_has_upstream |-> "none"]
    /\ remoteSelect = <<>>
    /\ last = Did("run", [count |-> 0, visible |-> FALSE])
    /\ unanswered = FALSE
    /\ requests = <<>>

Init ==
    /\ InitView
    /\ script = <<>>
    /\ calls = <<>>
    /\ entries = <<>>

(***************************************************************************)
(* Events pushed by the backend.                                           *)
(***************************************************************************)
\* listen("start-process")
StartProcess ==
    /\ processCount < MaxCount
    /\ \E st \in {AddProcessCount(Counter(processCount, spinnerVisible))} :
        /\ processCount' = st.count
        /\ spinnerVisible' = st.visible
        /\ last' = Did("start-process", Now)
    /\ UNCHANGED <<uiVars, script, calls, entries, requests, unanswered>>

\* listen("end-process")
EndProcess ==
    /\ \E st \in {RemoveProcessCount(Counter(processCount, spinnerVisible))} :
        /\ processCount' = st.count
        /\ spinnerVisible' = st.visible
        /\ last' = [Did("end-process", Now) EXCEPT
                        !.hides = st.hides, !.removes = 1]
    /\ UNCHANGED <<uiVars, script, calls, entries, requests, unanswered>>

\* the error listener with the alert shown before removeProcessCount
ErrorHandlerAlertFirst(st) ==
    [counter |-> RemoveProcessCount(st),
     atAlert |-> [count |-> st.count, visible |-> st.visible]]

\* listen("error"): removeProcessCount, then alert
ErrorHandler(st) ==
    LET after == RemoveProcessCount(st) IN
    [counter |-> after,
     atAlert |-> [count |-> after.count, visible |-> after.visible]]

ErrorEvent ==
    /\ \E r \in {ErrorHandler(Counter(processCount, spinnerVisible))} :
        /\ processCount' = r.counter.count
        /\ spinnerVisible' = r.counter.visible
        /\ last' = [Did("error", Now) EXCEPT
                        !.alert = TRUE, !.atAlert = r.atAlert,
                        !.hides = r.counter.hides, !.removes = 1]
    /\ UNCHANGED <<uiVars, script, calls, entries, requests, unanswered>>

\* the update_changes listener calling removeProcessCount as well
UpdateChangesAndRemove(files_changed_info_list) ==
    /\ \E v \in {UpdateFilesChangedInfo(files_changed_info_list, containerWidth)},
          st \in {RemoveProcessCount(Counter(processCount, spinnerVisible))} :
        /\ unstagedRows' = v.unstagedRows
        /\ stagedRows' = v.stagedRows
        /\ changesTab' = v.changesTab
        /\ fileDiffTable' = v.fileDiffTable
        /\ processCount' = st.count
        /\ spinnerVisible' = st.visible
    /\ commitRows' = TruncateRows(UnselectAllRows(commitRows), containerWidth)
    /\ last' = Did("update_changes", Now)
    /\ UNCHANGED <<roots, tree, commitFileDiffTable, containerWidth, contextMenu,
                   generalInfo, remoteSelect, script, calls, entries, requests, unanswered>>

\* listen("update_changes")
UpdateChanges(files_changed_info_list) ==
    /\ \E v \in {UpdateFilesChangedInfo(files_changed_info_list, containerWidth)} :
        /\ unstagedRows' = v.unstagedRows
        /\ stagedRows' = v.stagedRows
        /\ changesTab' = v.changesTab
        /\ fileDiffTable' = v.fileDiffTable
    /\ commitRows' = TruncateRows(UnselectAllRows(commitRows), containerWidth)
    /\ last' = Did("update_changes", Now)
    /\ UNCHANGED <<processCount, spinnerVisible, roots, tree, commitFileDiffTable,
                   containerWidth, contextMenu, generalInfo, remoteSelect,
                   script, calls, entries, requests, unanswered>>

\* the rendered parents of the rows under one root
Parents(rows) == {i \in 1..Len(rows) : rows[i].kind = "parent"}

\* the expanded parents of old that are not parents of new
Vanished(old, new) ==
    UNION {{[root |-> r, path |-> old[r][j].path] :
                j \in {k \in Parents(old[r]) :
                        /\ old[r][k].active
                        /\ \A i \in Parents(new[r]) :
                                new[r][i].path # old[r][k].path}} :
           r \in Range(RootIds)}

\* the paths of the rows under one root, in document order
RowPaths(rows) == [i \in 1..Len(rows) |-> rows[i].path]

\* the names of the snapshots whose local branches the tree t shows
Rendered(t) ==
    {s.name : s \in {x \in Snapshots :
        RowPaths(t["localBranches"])
            = RowPaths(BuildBranchResultHTML(
                    x.branch_info_list.local_branch_info_tree.children,
                    <<"localBranches">>, <<>>))}}

\* updateAll followed by removeProcessCount, as in listen("update_all"):
\* when updateBranchInfo throws, updateRemoteInfo and removeProcessCount
\* are not reached
UpdateAllHandler(st, dom, options, repo_info) ==
    LET b == UpdateBranchInfo(dom, repo_info.branch_info_list) IN
    IF b.threw
    THEN [counter |-> st, dom |-> b.dom, remoteSelect |-> options,
          removes |-> 0, threw |-> TRUE]
    ELSE [counter |-> RemoveProcessCount(st), dom |-> b.dom,
          remoteSelect |-> UpdateRemoteInfo(options, repo_info.remote_info_list),
          removes |-> 1, threw |-> FALSE]

UpdateAll(repo_info) ==
    /\ \E v \in {UpdateFilesChangedInfo(repo_info.files_changed_info_list,
                                        containerWidth)},
          r \in {UpdateAllHandler(Counter(processCount, spinnerVisible), Dom,
                                  remoteSelect, repo_info)} :
        /\ generalInfo' = repo_info.general_info
        /\ unstagedRows' = v.unstagedRows
        /\ stagedRows' = v.stagedRows
        /\ changesTab' = v.changesTab
        /\ fileDiffTable' = v.fileDiffTable
        /\ roots' = r.dom.roots
        /\ tree' = r.dom.tree
        /\ remoteSelect' = r.remoteSelect
        /\ processCount' = r.counter.count
        /\ spinnerVisible' = r.counter.visible
        /\ last' = [Did("update_all", Now) EXCEPT
                        !.hides = r.counter.hides, !.removes = r.removes,
                        !.threw = r.threw, !.payload = repo_info.name,
                        !.from = Rendered(tree),
                        !.again = (last.handler = "update_all"
                                   /\ last.payload = repo_info.name),
                        !.dropped = (Vanished(tree, r.dom.tree) # {})]
    /\ commitRows' = TruncateRows(UnselectAllRows(commitRows), containerWidth)
    /\ UNCHANGED <<commitFileDiffTable, containerWidth, contextMenu, script, calls,
                   entries, requests, unanswered>>

\* listen("show-file-lines"): showFileDiff
ShowFileLines(file_info) ==
    /\ IF file_info.change_type = "commit"
       THEN /\ commitFileDiffTable' = FileLineRows(file_info.file_lines)
            /\ UNCHANGED fileDiffTable
       ELSE /\ file_info.change_type \in {"unstaged", "staged"}
            /\ fileDiffTable' = FileLineRows(file_info.file_lines)
            /\ UNCHANGED commitFileDiffTable
    /\ last' = Did("show-file-lines", Now)
    /\ UNCHANGED <<processCount, spinnerVisible, roots, tree, unstagedRows,
                   stagedRows, commitRows, changesTab, containerWidth, contextMenu,
                   generalInfo, remoteSelect, script, calls, entries, unanswered>>

\* the backend answers the file-diff commands in the order of their
\* emission, each with one show-file-lines event
AnswerFileDiff ==
    /\ requests # <<>>
    /\ ShowFileLines(FileInfo(Head(requests)))
    /\ requests' = Tail(requests)

\* listen("commit-info"): showCommitInfo empties #commitChanges and
\* #commitFileDiffTable, renders one row for each changed file of the
\* commit, and fits every label
ShowCommitInfo(commit_info) ==
    /\ commitRows' =
            TruncateRows([i \in 1..Len(commit_info.changed_files) |->
                            AddFileChangeRow(commit_info.changed_files[i], "commit")],
                         containerWidth)
    /\ commitFileDiffTable' = <<>>
    /\ unstagedRows' = TruncateRows(unstagedRows, containerWidth)
    /\ stagedRows' = TruncateRows(stagedRows, containerWidth)
    /\ last' = Did("commit-info", Now)
    /\ UNCHANGED <<processCount, spinnerVisible, roots, tree, changesTab,
                   fileDiffTable, containerWidth, contextMenu, generalInfo,
                   remoteSelect, script, calls, entries, requests, unanswered>>

(***************************************************************************)
(* User input.                                                             *)
(***************************************************************************)
\* the buttons whose click handler calls addProcessCount and then emits
CountedButtons ==
    {"commit", "commit-push", "fetch", "pull", "push", "branch", "save-preferences"}

\* a click handler that emits cmd and calls addProcessCount afterwards
CountedCommandEmitFirst(st, cmd) ==
    [counter |-> AddProcessCount(st), emit |-> cmd, atEmit |-> st.count]

\* a click handler that calls addProcessCount and then emits cmd: the
\* counter after the handler and the count at the time of the emit
CountedCommand(st, cmd) ==
    LET after == AddProcessCount(st) IN
    [counter |-> after, emit |-> cmd, atEmit |-> after.count]

\* a click handler that emits cmd without touching the counter
PlainCommand(st, cmd) ==
    [counter |-> st, emit |-> cmd, atEmit |-> st.count]

\* the effect of a command handler on the counter, and its record in last;
\* the backend may never answer a command emitted after addProcessCount
Issue(handler, r) ==
    /\ processCount' = r.counter.count
    /\ spinnerVisible' = r.counter.visible
    /\ last' = [Did(handler, Now) EXCEPT
                    !.emit = r.emit, !.atEmit = r.atEmit]
    /\ \E lost \in IF r.counter.count > processCount THEN BOOLEAN ELSE {FALSE} :
            unanswered' = (unanswered \/ lost)

\* #commitBtn, #commitPushBtn, #fetchBtn, #pullBtn, #pushBtn, #branchBtn,
\* #savePreferencesBtn; the click reaches the window and hides the menu
ClickButton(cmd) ==
    /\ processCount < MaxCount
    /\ Issue("button", CountedCommand(Counter(processCount, spinnerVisible), cmd))
    /\ contextMenu' = "hidden"
    /\ UNCHANGED <<roots, tree, unstagedRows, stagedRows, changesTab, fileDiffTable,
                   commitFileDiffTable, commitRows, containerWidth, generalInfo, remoteSelect,
                   script, calls, entries, requests>>

\* #saveCredentialsBtn
SaveCredentials ==
    /\ Issue("button", PlainCommand(Counter(processCount, spinnerVisible),
                                    "save-credentials"))
    /\ contextMenu' = "hidden"
    /\ UNCHANGED <<roots, tree, unstagedRows, stagedRows, changesTab, fileDiffTable,
                   commitFileDiffTable, commitRows, containerWidth, generalInfo, remoteSelect,
                   script, calls, entries, requests>>

\* the + button of an unstaged row; the click does not reach the window
StageClick(i) ==
    /\ i \in 1..Len(unstagedRows)
    /\ Issue("stage-button", PlainCommand(Counter(processCount, spinnerVisible),
                                          "stage"))
    /\ UNCHANGED <<uiVars, script, calls, entries, requests>>

\* the - button of a staged row
UnstageClick(i) ==
    /\ i \in 1..Len(stagedRows)
    /\ Issue("unstage-button", PlainCommand(Counter(processCount, spinnerVisible),
                                            "unstage"))
    /\ UNCHANGED <<uiVars, script, calls, entries, requests>>

\* a click on the text of a change row: the row becomes the selected one
\* and its diff is requested
RowClick(list, i) ==
    /\ Len(requests) < MaxRequests
    /\ \/ /\ list = "unstaged"
          /\ i \in 1..Len(unstagedRows)
          /\ unstagedRows' = SelectRow(UnselectAllRows(unstagedRows), i)
          /\ stagedRows' = UnselectAllRows(stagedRows)
          /\ commitRows' = UnselectAllRows(commitRows)
          /\ requests' = Append(requests, [file_path |-> unstagedRows[i].path,
                                           change_type |-> unstagedRows[i].change_type])
       \/ /\ list = "staged"
          /\ i \in 1..Len(stagedRows)
          /\ stagedRows' = SelectRow(UnselectAllRows(stagedRows), i)
          /\ unstagedRows' = UnselectAllRows(unstagedRows)
          /\ commitRows' = UnselectAllRows(commitRows)
          /\ requests' = Append(requests, [file_path |-> stagedRows[i].path,
                                           change_type |-> stagedRows[i].change_type])
       \/ /\ list = "commit"
          /\ i \in 1..Len(commitRows)
          /\ commitRows' = SelectRow(UnselectAllRows(commitRows), i)
          /\ unstagedRows' = UnselectAllRows(unstagedRows)
          /\ stagedRows' = UnselectAllRows(stagedRows)
          /\ requests' = Append(requests, [file_path |-> commitRows[i].path,
                                           change_type |-> commitRows[i].change_type])
    /\ fileDiffTable' = <<>>
    /\ contextMenu' = "hidden"
    /\ Issue("row", PlainCommand(Counter(processCount, spinnerVisible), "file-diff"))
    /\ UNCHANGED <<roots, tree, changesTab, commitFileDiffTable, containerWidth,
                   generalInfo, remoteSelect, script, calls, entries>>

\* a rendered row can be clicked when every list it sits in is expanded: a
\* .nested list is displayed only while it carries active-tree
Displayed(r, i) ==
    /\ roots[r].active
    /\ \A n \in 1..(Len(tree[r][i].path) - 1) :
            \E j \in 1..Len(tree[r]) :
                /\ tree[r][j].kind = "parent"
                /\ tree[r][j].path = SubSeq(tree[r][i].path, 1, n)
                /\ tree[r][j].active

\* a double click on a branch row; the clicks before it reach the window
BranchDblClick(r, i) ==
    /\ i \in 1..Len(tree[r])
    /\ tree[r][i].kind = "leaf"
    /\ tree[r][i].dblclick # "none"
    /\ Displayed(r, i)
    /\ processCount < MaxCount
    /\ Issue("dblclick", CountedCommand(Counter(processCount, spinnerVisible),
                                        tree[r][i].dblclick))
    /\ contextMenu' = "hidden"
    /\ UNCHANGED <<roots, tree, unstagedRows, stagedRows, changesTab, fileDiffTable,
                   commitFileDiffTable, commitRows, containerWidth, generalInfo, remoteSelect,
                   script, calls, entries, requests>>

\* a right click on a branch or tag row: showContextMenu
ShowContextMenu(r, i) ==
    /\ i \in 1..Len(tree[r])
    /\ tree[r][i].kind = "leaf"
    /\ Displayed(r, i)
    /\ contextMenu' = tree[r][i].branch_type
    /\ last' = Did("contextmenu", Now)
    /\ UNCHANGED <<processCount, spinnerVisible, roots, tree, unstagedRows,
                   stagedRows, changesTab, fileDiffTable, commitFileDiffTable, commitRows,
                   containerWidth, generalInfo, remoteSelect, script, calls, entries, requests, unanswered>>

\* the command the Delete button of the context menu is bound to
DeleteCommand(branchType) ==
    IF branchType = "local" THEN "delete-local-branch"
    ELSE IF branchType = "remote" THEN "delete-remote-branch"
         ELSE "delete-tag"

\* a click on the Delete button of the context menu
DeleteClick ==
    /\ contextMenu \in {"local", "remote", "tag"}
    /\ processCount < MaxCount
    /\ Issue("delete-button", CountedCommand(Counter(processCount, spinnerVisible),
                                             DeleteCommand(contextMenu)))
    /\ contextMenu' = "hidden"
    /\ UNCHANGED <<roots, tree, unstagedRows, stagedRows, changesTab, fileDiffTable,
                   commitFileDiffTable, commitRows, containerWidth, generalInfo, remoteSelect,
                   script, calls, entries, requests>>

\* a click anywhere else in the window
WindowClick ==
    /\ contextMenu # "hidden"
    /\ contextMenu' = "hidden"
    /\ last' = Did("window-click", Now)
    /\ UNCHANGED <<processCount, spinnerVisible, roots, tree, unstagedRows,
                   stagedRows, changesTab, fileDiffTable, commitFileDiffTable, commitRows,
                   containerWidth, generalInfo, remoteSelect, script, calls, entries, requests, unanswered>>

\* a click on the header of a static list (idx 0) or of a rendered parent
TogglerClick(r, idx) ==
    /\ \/ /\ idx = 0
          /\ roots' = [roots EXCEPT ![r] = Dispatch(roots[r].listeners, roots[r])]
          /\ UNCHANGED tree
       \/ /\ idx \in 1..Len(tree[r])
          /\ tree[r][idx].kind = "parent"
          /\ Displayed(r, idx)
          /\ tree' = [tree EXCEPT
                        ![r][idx] = Dispatch(tree[r][idx].listeners, tree[r][idx])]
          /\ UNCHANGED roots
    /\ contextMenu' = "hidden"
    /\ last' = [Did("toggle", Now) EXCEPT
                    !.target = [root |-> r, idx |-> idx]]
    /\ UNCHANGED <<processCount, spinnerVisible, unstagedRows, stagedRows,
                   changesTab, fileDiffTable, commitFileDiffTable, commitRows, containerWidth,
                   generalInfo, remoteSelect, script, calls, entries, requests, unanswered>>

\* $(window).resize: the labels are fitted to the new width
Resize(w) ==
    /\ w # containerWidth
    /\ containerWidth' = w
    /\ unstagedRows' = TruncateRows(unstagedRows, w)
    /\ stagedRows' = TruncateRows(stagedRows, w)
    /\ commitRows' = TruncateRows(commitRows, w)
    /\ last' = [Did("resize", Now) EXCEPT
                    !.shown = [i \in 1..Len(unstagedRows) |-> unstagedRows[i].text]]
    /\ UNCHANGED <<processCount, spinnerVisible, roots, tree, changesTab,
                   fileDiffTable, commitFileDiffTable, contextMenu, generalInfo,
                   remoteSelect, script, calls, entries, requests, unanswered>>

(***************************************************************************)
(* The call-sequence driver: the start-process and end-process listeners   *)
(* run in the order given by script.                                       *)
(***************************************************************************)
CallScripts == UNION {[1..n -> {"start", "end"}] : n \in 0..MaxCalls}

CallStart ==
    /\ script # <<>>
    /\ Head(script) = "start"
    /\ \E st \in {AddProcessCount(Counter(processCount, spinnerVisible))} :
        /\ processCount' = st.count
        /\ spinnerVisible' = st.visible
        /\ last' = Did("start-process", Now)
    /\ script' = Tail(script)
    /\ calls' = Append(calls, "start")
    /\ UNCHANGED <<uiVars, unanswered, entries, requests>>

CallEnd ==
    /\ script # <<>>
    /\ Head(script) = "end"
    /\ \E st \in {RemoveProcessCount(Counter(processCount, spinnerVisible))} :
        /\ processCount' = st.count
        /\ spinnerVisible' = st.visible
        /\ last' = [Did("end-process", Now) EXCEPT
                        !.hides = st.hides, !.removes = 1]
    /\ script' = Tail(script)
    /\ calls' = Append(calls, "end")
    /\ UNCHANGED <<uiVars, unanswered, entries, requests>>

InitCalls ==
    /\ InitView
    /\ script \in CallScripts
    /\ calls = <<>>
    /\ entries = <<>>

NextCalls == CallStart \/ CallEnd

\* any sequence of at most MaxCalls start-process and end-process events
SpecCalls == InitCalls /\ [][NextCalls]_vars

(***************************************************************************)
(* Specifications.                                                         *)
(***************************************************************************)
\* every handler
Next ==
    \/ StartProcess
    \/ EndProcess
    \/ ErrorEvent
    \/ \E c \in ChangeLists : UpdateChanges(c)
    \/ \E s \in Snapshots : UpdateAll(s)
    \/ AnswerFileDiff
    \/ \E cmd \in CountedButtons : ClickButton(cmd)
    \/ SaveCredentials
    \/ \E i \in 1..Len(unstagedRows) : StageClick(i)
    \/ \E i \in 1..Len(stagedRows) : UnstageClick(i)
    \/ \E l \in {"unstaged", "staged", "commit"} :
            \E i \in 1..Len(unstagedRows) + Len(stagedRows) + Len(commitRows) :
                RowClick(l, i)
    \/ \E c \in CommitInfos : ShowCommitInfo(c)
    \/ \E r \in Range(RootIds) : \E i \in 1..Len(tree[r]) : BranchDblClick(r, i)
    \/ \E r \in Range(RootIds) : \E i \in 1..Len(tree[r]) : ShowContextMenu(r, i)
    \/ DeleteClick
    \/ WindowClick
    \/ \E r \in Range(RootIds) : \E i \in 0..Len(tree[r]) : TogglerClick(r, i)
    \/ \E w \in Widths : Resize(w)

Spec == Init /\ [][Next]_vars

\* the handlers that read or write the tree view or the counter it is
\* rebuilt with: snapshots, change-list updates, header clicks, and the
\* start-process and end-process events
NextTree ==
    \/ StartProcess
    \/ EndProcess
    \/ \E c \in ChangeLists : UpdateChanges(c)
    \/ \E s \in Snapshots : UpdateAll(s)
    \/ \E r \in Range(RootIds) : \E i \in 0..Len(tree[r]) : TogglerClick(r, i)

SpecTree == Init /\ [][NextTree]_vars

\* the handlers that render and fit the file labels
NextFit ==
    \/ \E c \in ChangeLists \cup FitLists : UpdateChanges(c)
    \/ \E w \in Widths : Resize(w)

SpecFit == Init /\ [][NextFit]_vars

\* the handlers that change the counter or emit a command, with the
\* backend sending the snapshot "small"
NextActivity ==
    \/ StartProcess
    \/ EndProcess
    \/ ErrorEvent
    \/ \E c \in ChangeLists : UpdateChanges(c)
    \/ \E s \in {x \in Snapshots : x.name = "small"} : UpdateAll(s)
    \/ \E cmd \in CountedButtons : ClickButton(cmd)
    \/ SaveCredentials
    \/ \E i \in 1..Len(unstagedRows) : StageClick(i)
    \/ \E i \in 1..Len(stagedRows) : UnstageClick(i)
    \/ \E r \in Range(RootIds) : \E i \in 1..Len(tree[r]) : BranchDblClick(r, i)
    \/ \E r \in Range(RootIds) : \E i \in 1..Len(tree[r]) : ShowContextMenu(r, i)
    \/ DeleteClick
    \/ WindowClick
    \/ \E r \in Range(RootIds) : \E i \in 0..Len(tree[r]) : TogglerClick(r, i)

SpecActivity == Init /\ [][NextActivity]_vars

\* listen("update_all") with the snapshot the backend builds from entries
UpdateAllBuilt == UpdateAll(BuiltSnapshot(entries))

InitBuild ==
    /\ InitView
    /\ script = <<>>
    /\ calls = <<>>
    /\ entries \in EntryLists

\* snapshots built from a flat list of names, and header clicks on the
\* local branches
NextBuild ==
    \/ UpdateAllBuilt
    \/ \E i \in 0..Len(tree["localBranches"]) : TogglerClick("localBranches", i)

SpecBuild == InitBuild /\ [][NextBuild]_vars

\* the handlers that render, select and clear the change rows and fill the
\* diff viewer, with the backend sending the snapshot "small"
NextDiff ==
    \/ \E c \in ChangeLists : UpdateChanges(c)
    \/ \E s \in {x \in Snapshots : x.name = "small"} : UpdateAll(s)
    \/ \E c \in CommitInfos : ShowCommitInfo(c)
    \/ \E l \in {"unstaged", "staged", "commit"} :
            \E i \in 1..Len(unstagedRows) + Len(stagedRows) + Len(commitRows) :
                RowClick(l, i)
    \/ AnswerFileDiff

SpecDiff == Init /\ [][NextDiff]_vars

(***************************************************************************)
(* Properties of the activity counter.                                     *)
(***************************************************************************)
\* the number of calls of kind k made by the driver
Count(k) == Cardinality({i \in 1..Len(calls) : calls[i] = k})

Max0(n) == IF n > 0 THEN n ELSE 0

\* no end call was made while the counter was 0: every prefix of the
\* calls made has at least as many starts as ends
NoEndAtZero ==
    \A n \in 1..Len(calls) :
        Cardinality({i \in 1..n : calls[i] = "end"})
            <= Cardinality({i \in 1..n : calls[i] = "start"})

\* C1 as stated: after the last call of any sequence of N start and M end
\* calls, in any order, processCount is max(0, N - M).
C1_FinalIsMaxOfZeroAndNet ==
    script = <<>> => processCount = Max0(Count("start") - Count("end"))

\* C1 amended: after any sequence of N start and M end calls processCount
\* is at least max(0, N - M), and it is N - M when no end call was made
\* while the counter was 0.
C1_FinalWithoutEndAtZero ==
    /\ processCount >= Max0(Count("start") - Count("end"))
    /\ NoEndAtZero => processCount = Count("start") - Count("end")

\* a sequence with starts and ends interleaved, none of the ends made at 0,
\* has run to its last call and leaves operations outstanding
C1_Witness ==
    /\ script = <<>>
    /\ Len(calls) = MaxCalls
    /\ calls[1] = "start" /\ calls[2] = "end" /\ calls[3] = "start"
    /\ Count("end") >= 2
    /\ NoEndAtZero
    /\ processCount = Count("start") - Count("end")
    /\ processCount > 0

\* C2 as stated: hide() is called by removeProcessCount exactly when the
\* count goes from a positive value to 0, and not by a call made at 0.
C2_IdleOnlyOnTransition ==
    last.removes = 1 =>
        (last.hides = 1 <=> (last.pre.count > 0 /\ processCount = 0))

\* C2 amended: hide() is called by every removeProcessCount that leaves the
\* count at 0, a call made at 0 included; the spinner goes from shown to
\* hidden exactly when the count goes from a positive value to 0.
C2_IdleWheneverZero ==
    last.removes = 1 =>
        /\ last.hides = 1 <=> processCount = 0
        /\ (last.pre.visible /\ ~spinnerVisible)
                <=> (last.pre.count > 0 /\ processCount = 0)

\* removeProcessCount was called at 0: the count is clamped and hide() called
C2_Witness ==
    /\ last.removes = 1
    /\ last.pre.count = 0
    /\ processCount = 0
    /\ last.hides = 1

(***************************************************************************)
(* Properties of the command handlers and of the error listener.           *)
(***************************************************************************)
\* the commands whose handler calls addProcessCount before the emit
CountedCommands ==
    {"commit", "commit-push", "push", "fetch", "pull", "checkout",
     "checkout-remote", "branch", "delete-local-branch", "delete-remote-branch",
     "delete-tag"}

\* C3 as stated: for each of stage, unstage, commit, commit-push, push,
\* fetch, pull, checkout, checkout-remote, branch and the three deletes,
\* addProcessCount runs in the handler before the emit, so processCount is
\* at least 1 right after the command is issued.
C3_EveryCommandCounted ==
    last.emit \in CountedCommands \cup {"stage", "unstage"} =>
        /\ last.atEmit = last.pre.count + 1
        /\ processCount >= 1

\* C3 amended: for each of commit, commit-push, push, fetch, pull, checkout,
\* checkout-remote, branch and the three deletes, addProcessCount runs in
\* the handler before the emit, so processCount is at least 1 right after;
\* stage and unstage are emitted without addProcessCount and leave
\* processCount as it was.
C3_CountedCommandsCounted ==
    /\ last.emit \in CountedCommands =>
        /\ last.atEmit = last.pre.count + 1
        /\ processCount >= 1
        /\ spinnerVisible
    /\ last.emit \in {"stage", "unstage"} =>
        /\ last.atEmit = last.pre.count
        /\ processCount = last.pre.count

\* a delete was issued from the context menu while nothing was outstanding
C3_Witness ==
    /\ last.emit = "delete-tag"
    /\ last.pre.count = 0
    /\ processCount = 1

\* C4: in the error listener removeProcessCount runs before the alert, for
\* every count: the alert is shown over the counter as removeProcessCount
\* left it, with one operation outstanding the spinner is hidden when the
\* alert shows, and with none the count stays 0.
C4_RemoveBeforeAlert ==
    last.handler = "error" =>
        /\ last.alert
        /\ last.removes = 1
        /\ last.atAlert = [count |-> processCount, visible |-> spinnerVisible]
        /\ last.atAlert.count = Max0(last.pre.count - 1)
        /\ last.pre.count = 1 => ~last.atAlert.visible
        /\ last.pre.count = 0 => (last.atAlert.count = 0 /\ processCount = 0)

\* an error arrived while exactly one operation was outstanding
C4_Witness ==
    /\ last.handler = "error"
    /\ last.pre.count = 1
    /\ last.pre.visible
    /\ ~spinnerVisible

(***************************************************************************)
(* Properties of the tree view.                                            *)
(***************************************************************************)
\* the ids of the expanded parents of a rendered tree
ExpandedIds(t) ==
    UNION {{t[r][i].id : i \in {k \in Parents(t[r]) : t[r][k].active}} :
           r \in Range(RootIds)}

\* the positions of the expanded parents of a rendered tree
ExpandedAt(t) ==
    UNION {{[root |-> r, idx |-> i] :
                i \in {k \in Parents(t[r]) : t[r][k].active}} :
           r \in Range(RootIds)}

\* C5: after update_all has replaced the tree, every parent that was
\* expanded before and is a parent at the same path of the new tree is
\* expanded, with its caret rotated, and every parent whose id no expanded
\* parent carried before is collapsed.
C5_ExpansionPreserved ==
    [][last'.handler = "update_all" =>
        \A r \in Range(RootIds) : \A i \in Parents(tree'[r]) :
            /\ (\E j \in Parents(tree[r]) :
                    tree[r][j].path = tree'[r][i].path /\ tree[r][j].active)
                => (tree'[r][i].active /\ tree'[r][i].rotated)
            /\ tree'[r][i].id \notin ExpandedIds(tree) => ~tree'[r][i].active
      ]_vars

C7_UpdateChangesFrame ==
    [][last'.handler = "update_changes" =>
        UNCHANGED <<tree, roots, processCount, spinnerVisible, commitFileDiffTable,
                    containerWidth, contextMenu, generalInfo, remoteSelect>>
      ]_vars

\* a change list arrived while a parent was expanded and an operation was
\* outstanding
C7_Witness ==
    /\ last.handler = "update_changes"
    /\ unstagedRows # <<>>
    /\ ExpandedIds(tree) # {}
    /\ processCount > 0

\* the rendered rows with expansion and listeners as buildBranchResultHTML
\* leaves them
AsBuilt(rows) ==
    [i \in 1..Len(rows) |->
        IF rows[i].kind = "parent"
        THEN [rows[i] EXCEPT !.active = FALSE, !.rotated = FALSE, !.listeners = <<>>]
        ELSE rows[i]]

\* C8: update_all rebuilds the change-list view and the tree view from the
\* snapshot and then calls removeProcessCount exactly once, whatever was
\* expanded before.
C8_UpdateAllRemovesOnce ==
    last.handler = "update_all" =>
        LET s == CHOOSE x \in Snapshots : x.name = last.payload IN
        /\ [i \in 1..Len(unstagedRows) |-> unstagedRows[i].path]
                = [i \in 1..Len(s.files_changed_info_list.unstaged_files) |->
                        s.files_changed_info_list.unstaged_files[i].path]
        /\ [i \in 1..Len(stagedRows) |-> stagedRows[i].path]
                = [i \in 1..Len(s.files_changed_info_list.staged_files) |->
                        s.files_changed_info_list.staged_files[i].path]
        /\ AsBuilt(tree["localBranches"])
                = BuildBranchResultHTML(
                    s.branch_info_list.local_branch_info_tree.children,
                    <<"localBranches">>, <<>>)
        /\ last.removes = 1
        /\ processCount = Max0(last.pre.count - 1)

\* C9: a click on a header flips the expansion of that list and of no
\* other, however many times setupTreeViews has run before.
C9_ClickFlipsOne ==
    [][last'.handler = "toggle" =>
        LET t == last'.target IN
        /\ \A r \in Range(RootIds) :
                roots'[r].active = (IF t = [root |-> r, idx |-> 0]
                                    THEN ~roots[r].active ELSE roots[r].active)
        /\ \A r \in Range(RootIds) :
                /\ Len(tree'[r]) = Len(tree[r])
                /\ \A i \in Parents(tree[r]) :
                        tree'[r][i].active = (IF t = [root |-> r, idx |-> i]
                                              THEN ~tree[r][i].active
                                              ELSE tree[r][i].active)
      ]_vars

\* the header of a static list was clicked open after a snapshot had been
\* rendered under it
C9_Witness ==
    /\ last.handler = "toggle"
    /\ last.target = [root |-> "localBranches", idx |-> 0]
    /\ tree["localBranches"] # <<>>
    /\ roots["localBranches"].active
    /\ ExpandedIds(tree) # {}

\* C10: update_all handled a second time in a row with the same snapshot
\* leaves the same lists expanded as the first time.
C10_ReconcileStable ==
    [][(last'.handler = "update_all" /\ last'.again) =>
        /\ ExpandedAt(tree') = ExpandedAt(tree)
        /\ \A r \in Range(RootIds) : roots'[r].active = roots[r].active
      ]_vars

\* the same snapshot was handled twice in a row with a parent expanded
C10_Witness ==
    /\ last.handler = "update_all"
    /\ last.again
    /\ ~last.threw
    /\ ExpandedIds(tree) # {}

(***************************************************************************)
(* The scenario of the tree view: feature stays open over a snapshot.      *)
(***************************************************************************)
\* the rows rendered directly under the parent at path p
ChildrenOf(rows, p) ==
    {i \in 1..Len(rows) :
        /\ Len(rows[i].path) = Len(p) + 1
        /\ SubSeq(rows[i].path, 1, Len(p)) = p}

\* the parent rendered at path p is expanded, with its caret rotated
ExpandedPath(rows, p) ==
    \E i \in Parents(rows) :
        rows[i].path = p /\ rows[i].active /\ rows[i].rotated

\* C11: with the tree of main, feature/a, feature/b and release/v1/hotfix
\* rendered and feature expanded, an update_all whose snapshot keeps
\* feature/a and not feature/b leaves feature expanded with exactly one
\* rendered child, the row a.
C11_FeatureStaysOpen ==
    [][(/\ last'.handler = "update_all"
        /\ last'.payload = "small"
        /\ "full" \in Rendered(tree)
        /\ ExpandedPath(tree["localBranches"], <<<<"feature">>>>))
       => LET rows == tree'["localBranches"]
              kids == ChildrenOf(rows, <<<<"feature">>>>) IN
          /\ ExpandedPath(rows, <<<<"feature">>>>)
          /\ Cardinality(kids) = 1
          /\ \A i \in kids : rows[i].kind = "leaf" /\ rows[i].text = <<"a">>
      ]_vars

\* the snapshot without feature/b was handled over the larger tree with
\* feature expanded, and feature is expanded afterwards
C11_Witness ==
    /\ last.handler = "update_all"
    /\ last.payload = "small"
    /\ "full" \in last.from
    /\ ~last.threw
    /\ ExpandedPath(tree["localBranches"], <<<<"feature">>>>)

(***************************************************************************)
(* The counter between handlers.                                           *)
(***************************************************************************)
\* C12: between handlers processCount is never negative: it is 0 when
\* Main.run returns, a handler raises it only by one addProcessCount and
\* lowers it only by one removeProcessCount, and a removeProcessCount made
\* at 0 leaves it at 0.
C12_NeverNegative ==
    /\ processCount >= 0
    /\ last.handler = "run" => processCount = 0
    /\ processCount > last.pre.count =>
            /\ processCount = last.pre.count + 1
            /\ \/ last.handler = "start-process"
               \/ last.emit # "none" /\ last.atEmit = last.pre.count + 1
    /\ processCount < last.pre.count =>
            /\ processCount = last.pre.count - 1
            /\ last.removes = 1
    /\ (last.removes = 1 /\ last.pre.count = 0) => processCount = 0

\* end-process arrived with no operation outstanding
C12_Witness ==
    /\ last.handler = "end-process"
    /\ last.removes = 1
    /\ last.pre.count = 0
    /\ processCount = 0

(***************************************************************************)
(* The scenario of the counter: three commands, three completions.         *)
(***************************************************************************)
Scenario13 == <<"start", "start", "start", "end", "end", "end">>

IsPrefix(a, b) == Len(a) <= Len(b) /\ a = SubSeq(b, 1, Len(a))

\* C13: from idle, along three start calls followed by three end calls the
\* spinner is shown after each of the first five calls, two end calls
\* included, and hidden after the sixth; the spinner goes from shown to
\* hidden, and hide() is called, at the sixth call and at no other.
C13_ThreeStartsThreeEnds ==
    [][IsPrefix(calls', Scenario13) =>
        /\ Len(calls') \in 1..5 => (spinnerVisible' /\ processCount' >= 1)
        /\ Len(calls') = 6 => (~spinnerVisible' /\ processCount' = 0)
        /\ (spinnerVisible /\ ~spinnerVisible') <=> Len(calls') = 6
        /\ last'.hides = 1 <=> Len(calls') = 6
        /\ calls = <<>> => ~spinnerVisible
      ]_vars

\* the third end call of the scenario has been handled
C13_Witness ==
    /\ calls = Scenario13
    /\ ~spinnerVisible
    /\ processCount = 0
    /\ last.hides = 1

(***************************************************************************)
(* Properties of the fitting of the file labels.                           *)
(***************************************************************************)
\* the rows of both change lists
AllRows == unstagedRows \o stagedRows

\* the label of row r is measured wider than 0 in a container wider than
\* 0, and its original text does not fit
DoesNotFit(r) ==
    /\ ClientWidth(r.path) > 0
    /\ containerWidth > 0
    /\ ClientWidth(r.path) >= containerWidth

\* C14 as stated: in a container of width 0 or less every label is left
\* showing exactly "...", whatever the length of its original text.
C14_ZeroWidthGivesEllipsis ==
    containerWidth <= 0 =>
        \A i \in 1..Len(AllRows) : AllRows[i].text = Ellipsis

\* C14 amended: in a container of width 0 or less the fitting ends without
\* entering the loop and every label is left showing its original text,
\* whatever its length.
C14_ZeroWidthKeepsOriginal ==
    containerWidth <= 0 =>
        \A i \in 1..Len(AllRows) : AllRows[i].text = AllRows[i].path

\* a label of 1 to 3 characters that showed "..." was fitted into a
\* container of width 0
C14_Witness ==
    /\ last.handler = "resize"
    /\ containerWidth = 0
    /\ \E i \in 1..Len(unstagedRows) :
            /\ Len(unstagedRows[i].path) \in 1..3
            /\ last.shown[i] = Ellipsis
            /\ unstagedRows[i].text = unstagedRows[i].path

\* C15 as stated: every iteration of the loop takes 4 more characters off
\* the front of the original text and puts the ellipsis in front, so a
\* label of fewer than 4 characters that does not fit is "..." after the
\* first iteration.
C15_LoopDropsFour ==
    \A i \in 1..Len(AllRows) :
        DoesNotFit(AllRows[i]) =>
            LET orig == AllRows[i].path
                trace == TruncateTrace(LoopEntry(orig, containerWidth), containerWidth)
            IN /\ AllRows[i].text = trace[Len(trace)]
               /\ \A k \in 1..(Len(trace) - 1) :
                        trace[k + 1] = Ellipsis \o Substring(orig, 4 * k)
               /\ Len(orig) < 4 => (Len(trace) >= 2 /\ trace[2] = Ellipsis)

\* C15 amended: every iteration of the loop cuts the ellipsis and one
\* character of the original text off the front (4 characters of the
\* rendered content) and puts the ellipsis in front again, so the text
\* behind the ellipsis loses one character per iteration, and a label of n
\* characters that ends as "..." got there after n iterations.
C15_LoopDropsOne ==
    \A i \in 1..Len(AllRows) :
        DoesNotFit(AllRows[i]) =>
            LET orig == AllRows[i].path
                trace == TruncateTrace(LoopEntry(orig, containerWidth), containerWidth)
            IN /\ AllRows[i].text = trace[Len(trace)]
               /\ trace[1] = Ellipsis \o orig
               /\ \A k \in 1..(Len(trace) - 1) :
                        trace[k + 1] = Ellipsis \o Substring(orig, k)
               /\ AllRows[i].text = Ellipsis => Len(trace) - 1 = Len(orig)

\* a label of 7 characters was cut down to the ellipsis and its last
\* character
C15_Witness ==
    /\ last.handler = "resize"
    /\ containerWidth = 5
    /\ \E i \in 1..Len(unstagedRows) :
            /\ Len(unstagedRows[i].path) = 7
            /\ unstagedRows[i].text
                    = Ellipsis \o Substring(unstagedRows[i].path, 6)

\* C16: after any sequence of resizes every label shows what one fitting
\* of its original text at the present width gives.
C16_FitFromOriginal ==
    \A i \in 1..Len(AllRows) :
        AllRows[i].text = TruncateFilePathText(AllRows[i].path, containerWidth)

\* a label that had been cut shows its original text again after the
\* container has grown
C16_Witness ==
    /\ last.handler = "resize"
    /\ containerWidth = 12
    /\ \E i \in 1..Len(unstagedRows) :
            /\ Len(unstagedRows[i].path) >= 5
            /\ last.shown[i] # unstagedRows[i].path
            /\ unstagedRows[i].text = unstagedRows[i].path

\* C17: fitting the text a label shows after a fitting, at the same
\* width, gives that text again.
C17_FitIdempotent ==
    \A i \in 1..Len(AllRows) :
        /\ AllRows[i].text = TruncateFilePathText(AllRows[i].path, containerWidth)
        /\ TruncateFilePathText(AllRows[i].text, containerWidth) = AllRows[i].text

\* a label was cut down to "...", which does not fit either
C17_Witness ==
    /\ containerWidth = 3
    /\ \E i \in 1..Len(unstagedRows) :
            /\ unstagedRows[i].path # Ellipsis
            /\ unstagedRows[i].text = Ellipsis
            /\ DoesNotFit([path |-> unstagedRows[i].text])

\* C18: the loop ends for every text and width: it is left at the first
\* text that is measured below the width of the container or is "...",
\* after at most as many iterations as the original text has characters.
C18_LoopEnds ==
    \A i \in 1..Len(AllRows) :
        (ClientWidth(AllRows[i].path) > 0 /\ containerWidth > 0) =>
            LET orig == AllRows[i].path
                trace == TruncateTrace(LoopEntry(orig, containerWidth), containerWidth)
                final == trace[Len(trace)]
            IN /\ AllRows[i].text = final
               /\ ClientWidth(final) < containerWidth \/ final = Ellipsis
               /\ \A k \in 1..(Len(trace) - 1) :
                        /\ ClientWidth(trace[k]) >= containerWidth
                        /\ k > 1 => trace[k] # Ellipsis
               /\ Len(trace) - 1 <= Len(orig)

\* a label with wide characters ran through as many iterations as it has
\* characters
C18_Witness ==
    /\ containerWidth = 3
    /\ \E i \in 1..Len(unstagedRows) :
            /\ unstagedRows[i].path = <<"w", "/", "m", ".", "c">>
            /\ unstagedRows[i].text = Ellipsis
            /\ Len(TruncateTrace(LoopEntry(unstagedRows[i].path, 3), 3)) = 6

(***************************************************************************)
(* A command the backend never answers.                                    *)
(***************************************************************************)
\* C19: once a command has been emitted after addProcessCount and its
\* completion event is never handled, processCount is at least 1 and the
\* spinner is shown in every later state, whatever is handled in between.
C19_UnansweredStaysBusy ==
    unanswered => (processCount >= 1 /\ spinnerVisible)

(***************************************************************************)
(* A header click followed by a snapshot.                                  *)
(***************************************************************************)
\* C20: update_all reads the expanded lists, rebuilds the tree and
\* expands again within the one step, from the state the click before it
\* left: the tree after the step is the whole tree of the snapshot, and the
\* list whose header was clicked just before is expanded after the step
\* exactly if the click left it expanded, when the snapshot still has it.
C20_ToggleNotLost ==
    [][(last.handler = "toggle" /\ last'.handler = "update_all") =>
        LET t == last.target
            s == CHOOSE x \in Snapshots : x.name = last'.payload
        IN /\ RowPaths(tree'["localBranches"])
                    = RowPaths(BuildBranchResultHTML(
                            s.branch_info_list.local_branch_info_tree.children,
                            <<"localBranches">>, <<>>))
           /\ IF t.idx = 0
              THEN roots'[t.root].active = roots[t.root].active
              ELSE \A i \in Parents(tree'[t.root]) :
                        tree'[t.root][i].path = tree[t.root][t.idx].path
                            => tree'[t.root][i].active = tree[t.root][t.idx].active
      ]_vars

(***************************************************************************)
(* Properties of the built tree and of its rendering.                      *)
(***************************************************************************)
RECURSIVE LeafPathsOf(_, _)
\* the segment paths from the root to the leaves under nodes, in order: a
\* leaf is a node with an entry and without children
LeafPathsOf(nodes, prefix) ==
    IF nodes = <<>> THEN <<>>
    ELSE LET p == Append(prefix, Head(nodes).segment) IN
         (IF Head(nodes).entry # <<>> /\ Head(nodes).children = <<>>
          THEN <<p>> ELSE <<>>)
         \o LeafPathsOf(Head(nodes).children, p)
         \o LeafPathsOf(Tail(nodes), prefix)

\* the joined root-to-leaf paths of the tree built from names
JoinedLeafPaths(names) ==
    LET paths == LeafPathsOf(Build(names, Separator).children, <<>>) IN
    [i \in 1..Len(paths) |-> Join(paths[i], Separator)]

Distinct(names) == Cardinality(Range(names)) = Len(names)

\* a snapshot built from entries has been handled
BuiltHandled == last.handler = "update_all" /\ last.payload = "built"

\* C21: for every list of pairwise distinct names, the joined root-to-leaf
\* paths of the built tree are the input names, each exactly once, also
\* when one name is a path prefix of another or has empty segments.
C21_LeafPathsAreNames ==
    (BuiltHandled /\ Distinct(entries)) =>
        /\ Range(JoinedLeafPaths(entries)) = Range(entries)
        /\ Distinct(JoinedLeafPaths(entries))

\* the segments of a name
Segments(fullName) == Split(fullName, Separator)

\* the names that continue the segment path prefix, in input order
Under(names, prefix) ==
    SelectSeq(names, LAMBDA n : /\ Len(Segments(n)) > Len(prefix)
                                /\ SubSeq(Segments(n), 1, Len(prefix)) = prefix)

\* the segments that follow prefix in names, each at its first occurrence
FirstSeen(names, prefix) ==
    LET under == Under(names, prefix)
        next == [i \in 1..Len(under) |-> Segments(under[i])[Len(prefix) + 1]]
        first == {i \in 1..Len(next) : \A j \in 1..(i - 1) : next[j] # next[i]}
    IN [k \in 1..Cardinality(first) |->
            next[CHOOSE i \in first : Cardinality({j \in first : j <= i}) = k]]

RECURSIVE FirstSeenOrder(_, _, _)
\* the segment paths of names and of their prefixes, depth first, siblings
\* in first-seen order; todo are the segments still to visit under prefix
FirstSeenOrder(names, prefix, todo) ==
    IF todo = <<>> THEN <<>>
    ELSE LET p == Append(prefix, Head(todo)) IN
         <<p>> \o FirstSeenOrder(names, p, FirstSeen(names, p))
               \o FirstSeenOrder(names, prefix, Tail(todo))

RECURSIVE SiblingsFirstSeen(_, _, _)
\* under node, reached by the segment path prefix, and under every node
\* below it the children are in first-seen order
SiblingsFirstSeen(node, prefix, names) ==
    /\ [i \in 1..Len(node.children) |-> node.children[i].segment]
            = FirstSeen(names, prefix)
    /\ \A i \in 1..Len(node.children) :
            SiblingsFirstSeen(node.children[i],
                              Append(prefix, node.children[i].segment), names)

\* C22: the children of every node of the built tree are in the order in
\* which their segments were first seen in the input list, and the rows
\* rendered for the tree follow that order, depth first.
C22_FirstSeenOrder ==
    BuiltHandled =>
        /\ SiblingsFirstSeen(Build(entries, Separator), <<>>, entries)
        /\ RowPaths(tree["localBranches"])
                = FirstSeenOrder(entries, <<>>, FirstSeen(entries, <<>>))

\* the list b/a, a, b has been built and rendered: b comes before a, and
\* the second row is b/a
C22_Witness ==
    /\ BuiltHandled
    /\ entries = <<<<"b", "/", "a">>, <<"a">>, <<"b">>>>
    /\ Len(tree["localBranches"]) = 3
    /\ tree["localBranches"][1].path = <<<<"b">>>>
    /\ tree["localBranches"][3].path = <<<<"a">>>>

RECURSIVE NodePaths(_, _, _)
\* the segment paths of the nodes under nodes that have children (inner)
\* or have none (~inner), depth first in child order
NodePaths(nodes, prefix, inner) ==
    IF nodes = <<>> THEN <<>>
    ELSE LET p == Append(prefix, Head(nodes).segment) IN
         (IF (Head(nodes).children # <<>>) = inner THEN <<p>> ELSE <<>>)
         \o NodePaths(Head(nodes).children, p, inner)
         \o NodePaths(Tail(nodes), prefix, inner)

RECURSIVE EntriesCarried(_)
\* the number of entries the nodes and the nodes below them carry
EntriesCarried(nodes) ==
    IF nodes = <<>> THEN 0
    ELSE Len(Head(nodes).entry) + EntriesCarried(Head(nodes).children)
         + EntriesCarried(Tail(nodes))

\* the paths of the rendered headers, or of the rendered rows, in order
PathsOfKind(rows, kind) == RowPaths(SelectSeq(rows, LAMBDA e : e.kind = kind))

\* the elements rendered below header i are those that follow it without a
\* gap and whose path continues its path, and there is at least one
HoldsItsChildren(rows, i) ==
    LET below == {j \in 1..Len(rows) :
                    j # i /\ Len(rows[j].path) > Len(rows[i].path)
                          /\ IsPrefix(rows[i].path, rows[j].path)}
    IN /\ below # {}
       /\ \E k \in 1..Len(rows) : below = (i + 1)..(i + k)

\* C23: every node with a child is rendered as one header holding the
\* rendering of its children, every node without children as one row, and
\* there are as many rendered rows as the tree carries entries.
C23_RenderedAsBuilt ==
    BuiltHandled =>
        LET rows == tree["localBranches"]
            nodes == Build(entries, Separator).children
        IN /\ PathsOfKind(rows, "parent") = NodePaths(nodes, <<>>, TRUE)
           /\ PathsOfKind(rows, "leaf") = NodePaths(nodes, <<>>, FALSE)
           /\ \A i \in Parents(rows) : HoldsItsChildren(rows, i)
           /\ Len(PathsOfKind(rows, "leaf")) = EntriesCarried(nodes)

(***************************************************************************)
(* Further properties of the fitting and of the counter.                   *)
(***************************************************************************)
\* C24: a label whose original text measures below the width of its
\* container shows the original text, without ellipsis.
C24_FittingTextUnchanged ==
    \A i \in 1..Len(AllRows) :
        ClientWidth(AllRows[i].path) < containerWidth =>
            AllRows[i].text = AllRows[i].path

\* a label that was cut in a narrower container shows its original text of
\* several characters again after the container was made wide enough
C24_Witness ==
    /\ last.handler = "resize"
    /\ Len(unstagedRows) > 0
    /\ Len(last.shown) > 0
    /\ last.shown[1] # unstagedRows[1].path
    /\ Len(unstagedRows[1].path) > 3
    /\ ClientWidth(unstagedRows[1].path) < containerWidth
    /\ unstagedRows[1].text = unstagedRows[1].path

\* C25: between two handlers the spinner is shown exactly when
\* processCount is above 0.
C25_SpinnerIffCounting ==
    spinnerVisible <=> processCount > 0

\* an end-process event has taken the count from 2 to 1 and the spinner is
\* still shown
C25_Witness ==
    /\ last.handler = "end-process"
    /\ last.pre.count = 2
    /\ processCount = 1
    /\ spinnerVisible

\* the events whose listener calls removeProcessCount
CompletionEvents == {"update_all", "end-process", "error"}

\* C26: while a counted command is outstanding (its own completion event
\* is never sent), no completion or error event of another command, one
\* that counted no start included, leaves the spinner hidden.
C26_OthersCompletionKeepsBusy ==
    [][(unanswered /\ last'.handler \in CompletionEvents) => spinnerVisible']_vars

(***************************************************************************)
(* Further properties of the tree view.                                    *)
(***************************************************************************)
\* the nested lists of the document carry pairwise different ids
IdsDistinct ==
    \A i, j \in 1..Len(Nested(Dom)) :
        i # j => Nested(Dom)[i].id # Nested(Dom)[j].id

\* C27: the ids that key the expansion state differ for different nested
\* lists of one snapshot, segments containing "-" included, and a parent
\* is expanded after update_all only if the parent at its path was
\* expanded before.
C27_PathIdentityDistinct ==
    [][/\ IdsDistinct'
       /\ last'.handler = "update_all" =>
            \A r \in Range(RootIds) : \A i \in Parents(tree'[r]) :
                tree'[r][i].active =>
                    \E j \in Parents(tree[r]) :
                        tree[r][j].path = tree'[r][i].path /\ tree[r][j].active
      ]_vars

\* C28: in every state the caret of every rendered header is rotated
\* exactly when the nested list of the header carries active-tree.
C28_CaretFollowsList ==
    \A r \in Range(RootIds) : \A i \in Parents(tree[r]) :
        tree[r][i].rotated <=> tree[r][i].active

\* update_all has rebuilt a tree in which one header is expanded with its
\* caret rotated and another one is collapsed
C28_Witness ==
    /\ last.handler = "update_all"
    /\ ~last.threw
    /\ \E r \in Range(RootIds) : \E i, j \in Parents(tree[r]) :
            /\ tree[r][i].active /\ tree[r][i].rotated
            /\ ~tree[r][j].active /\ ~tree[r][j].rotated

\* the ellipsis followed by the text orig without its first k characters
Cut(orig, k) == Ellipsis \o Substring(orig, k)

\* C29: every label shows its original text, or "..." followed by a suffix
\* of it; a non-empty suffix that is shown measures, with the ellipsis,
\* below the width of the container, and no longer suffix does.
C29_LongestFittingSuffix ==
    \A i \in 1..Len(AllRows) :
        \/ AllRows[i].text = AllRows[i].path
        \/ \E k \in 0..Len(AllRows[i].path) :
                /\ AllRows[i].text = Cut(AllRows[i].path, k)
                /\ k < Len(AllRows[i].path) =>
                        /\ ClientWidth(AllRows[i].text) < containerWidth
                        /\ \A j \in 0..(k - 1) :
                                ClientWidth(Cut(AllRows[i].path, j)) >= containerWidth

\* a label of seven characters shows "..." and its last three characters
\* after the container was made narrower
C29_Witness ==
    /\ last.handler = "resize"
    /\ containerWidth = 7
    /\ Len(unstagedRows) > 0
    /\ unstagedRows[1].path = File1.path
    /\ unstagedRows[1].text = Cut(File1.path, 4)
    /\ last.shown[1] = File1.path

(***************************************************************************)
(* Properties of the diff viewer.                                          *)
(***************************************************************************)
\* the selected change rows, each as the file and the list it stands for
SelectedFiles ==
    {[file_path |-> AllRows[i].path, change_type |-> AllRows[i].change_type] :
        i \in {k \in 1..Len(AllRows) : AllRows[k].selected}}

\* C30: whenever the diff viewer of the change lists shows lines, they are
\* the diff of the change row that is selected; neither the answer to an
\* earlier click nor an answer that arrives after update_changes has
\* cleared the selection leaves another diff in the viewer.
C30_DiffOfSelectedRow ==
    \A k \in 1..Len(fileDiffTable) :
        fileDiffTable[k].content \in SelectedFiles

\* the rows of the three file lists
FileRows == unstagedRows \o stagedRows \o commitRows

\* C31: in every state at most one row of the unstaged, staged and commit
\* file lists is selected, and when update_changes or update_all has just
\* been handled no row is selected and #fileDiffTable is empty.
C31_AtMostOneSelected ==
    LET selected == {i \in 1..Len(FileRows) : FileRows[i].selected} IN
    /\ Cardinality(selected) <= 1
    /\ last.handler \in {"update_changes", "update_all"} =>
            (selected = {} /\ fileDiffTable = <<>>)

\* update_changes arrived while a row was selected and its diff was shown;
\* the three lists have rows, none of them is selected and the viewer is
\* empty
C31_Witness ==
    /\ last.handler = "update_changes"
    /\ last.selected = 1
    /\ last.diffLines > 0
    /\ unstagedRows # <<>> /\ stagedRows # <<>> /\ commitRows # <<>>
    /\ \A i \in 1..Len(FileRows) : ~FileRows[i].selected
    /\ fileDiffTable = <<>>

====
